---- MODULE Spec2Model ----
(***************************************************************************)
(* Video-generation orchestration of RunReel: the hook                     *)
(* useEnhancedVideoGeneration (hooks/useEnhancedVideoGeneration.ts), the   *)
(* service EnhancedTavusService (services/enhancedTavusService.ts), the    *)
(* video_generations table it writes, and the provider's HTTP API.         *)
(*                                                                         *)
(* JavaScript runs one coroutine at a time and switches only at an await:  *)
(* every action below is the code that runs from one await of a            *)
(* generate() call to its next await.  What the awaited party answers (the *)
(* auth lookup, a store write, the provider) is drawn with \E.             *)
(*                                                                         *)
(* Times: elapsed time is in milliseconds (Date.now() differences); the    *)
(* poll interval is kept in 1/1000 ms, so that the products with 1.3 and   *)
(* 1.5 of the code are exact.                                              *)
(***************************************************************************)
EXTENDS Integers, Sequences, FiniteSets, TLC

\* ---------------------------------------------------------------- bounds
NumCalls == 2          \* generate() calls of a run of Spec
NumInstances == 1      \* mounted hook instances; the service is also called directly
NumActivities == 1     \* activities a video is asked for
ShortPolls == 1        \* Spec: the provider is terminal after this many polls
MaxOutages == 1        \* network outages during one poll run
OutageStart == 2       \* an outage begins at one of the first polls of a run
MaxElapsed == 500      \* seconds the ticker is followed after startTimeRef
LateTick == 60         \* seconds a tick can come late (a suspended app)

Calls == 1..NumCalls
Instances == 1..NumInstances

\* ------------------------------------------------------ program constants
maxAttempts == 60
initialInterval == 5000
maxInterval == 20000
totalTimeout == 600000
queueIntervalCap == 30000
peakSeconds == 120

User == "u1"

VARIABLES
  apiKey,     \* EnhancedTavusService.apiKey is set (fixed at construction)
  records,    \* the video_generations table: a sequence, id = index
  hook,       \* per hook instance: the useState value `state`
  sinceStart, \* per hook instance: whole seconds from startTimeRef.current
              \* to the latest tick (0 when the effect has just set it)
  progressInterval, \* per hook instance: the interval of a render that was
              \* generating which the effect of the render after it has not
              \* cleared yet (the estimatedTimeRemaining its updateProgress
              \* closed over), or NoInterval
  bar,        \* per hook instance: the progress bar's width as last rendered
  pc,         \* per call: the await it is suspended at
  call,       \* per call: how it was made (via: 0 = the service directly)
  svc,        \* per call: locals of EnhancedTavusService.generateActivityVideo
  poll,       \* per call: locals of pollVideoCompletionEnhanced
  http,       \* per call: requests issued to the provider
  result      \* per call: what generate() returned or threw

vars ==
  <<apiKey, records, hook, sinceStart, progressInterval, bar, pc, call, svc,
    poll, http, result>>

\* ------------------------------------------------------------ hook state
IdleState ==
  [isGenerating |-> FALSE, currentStep |-> "initializing", error |-> "none",
   videoUrl |-> "none", thumbnailUrl |-> "none", elapsedTime |-> 0,
   estimatedTimeRemaining |-> 180, isPeakUsage |-> FALSE]

ResetValue(prev) ==
  [prev EXCEPT !.isGenerating = FALSE, !.error = "none", !.videoUrl = "none",
     !.thumbnailUrl = "none", !.currentStep = "initializing",
     !.elapsedTime = 0, !.estimatedTimeRemaining = 480, !.isPeakUsage = FALSE]

ConfigFailedValue ==
  [isGenerating |-> FALSE, currentStep |-> "failed", error |-> "config",
   videoUrl |-> "none", thumbnailUrl |-> "none", elapsedTime |-> 0,
   estimatedTimeRemaining |-> 480, isPeakUsage |-> FALSE]

StartedValue(prev) ==
  [prev EXCEPT !.isGenerating = TRUE, !.error = "none", !.videoUrl = "none",
     !.thumbnailUrl = "none", !.currentStep = "initializing",
     !.elapsedTime = 0, !.estimatedTimeRemaining = 480, !.isPeakUsage = FALSE]

\* getEnhancedErrorMessage: the message is matched on 'timeout'/'peak usage',
\* then 'API key'; any other message is shown as it is.
getEnhancedErrorMessage(err) ==
  IF err \in {"timeout", "ceiling"} THEN "high_demand"
  ELSE IF err = "config" THEN "service_config"
  ELSE err

CompletedValue(prev, res) ==
  [prev EXCEPT !.isGenerating = FALSE, !.error = "none",
     !.videoUrl = res.videoUrl, !.thumbnailUrl = res.thumbnailUrl,
     !.currentStep = "completed",
     !.elapsedTime = res.total_time, !.estimatedTimeRemaining = 0,
     !.isPeakUsage = (res.total_time > peakSeconds)]

FailedValue(prev, err) ==
  [prev EXCEPT !.isGenerating = FALSE, !.error = getEnhancedErrorMessage(err),
     !.videoUrl = "none", !.thumbnailUrl = "none", !.currentStep = "failed",
     !.elapsedTime = 0, !.estimatedTimeRemaining = 480, !.isPeakUsage = FALSE]

\* The effect that starts and stops the ticker has the dependencies
\* [state.isGenerating, updateProgress], and updateProgress is made anew when
\* state.isGenerating or state.estimatedTimeRemaining changes.  When it runs
\* with isGenerating set it stores Date.now() in startTimeRef and starts a new
\* interval; otherwise it clears the interval (startTimeRef is then not read
\* before it is set again, and is kept at 0 here).
useEffect(prev, next, since) ==
  IF /\ next.isGenerating
     /\ prev.isGenerating
     /\ prev.estimatedTimeRemaining = next.estimatedTimeRemaining
  THEN since
  ELSE 0

NoInterval == -1

\* setState of hook instance i to the value next, and the render it causes.
\* A render that is generating runs the effect at once (the interval's next
\* call is a second away).  A render that ends generating comes at any moment
\* of that second: its effect, which clears the interval, runs after the
\* commit, and until then the interval of the render before it is still set.
SetState(i, next) ==
  /\ hook' = [hook EXCEPT ![i] = next]
  /\ IF next.isGenerating
     THEN /\ sinceStart' =
               [sinceStart EXCEPT ![i] = useEffect(hook[i], next, sinceStart[i])]
          /\ progressInterval' = [progressInterval EXCEPT ![i] = NoInterval]
     ELSE IF hook[i].isGenerating
     THEN /\ sinceStart' = sinceStart
          /\ progressInterval' =
               [progressInterval EXCEPT ![i] = hook[i].estimatedTimeRemaining]
     ELSE UNCHANGED <<sinceStart, progressInterval>>

\* Math.max
Max(a, b) == IF a > b THEN a ELSE b

\* The progress bar's width is kept in 1/PctScale percent, which makes the
\* quotients elapsedTime / maxEstimatedTime * 100 and the factors 0.2 and
\* 0.8 exact.
PctScale == 24
NotDrawn == -1

\* getProgressPercentage without the cap of timeProgress at 95.
getProgressPercentage_Uncapped(state) ==
  IF state.currentStep = "completed" THEN 100 * PctScale
  ELSE IF state.currentStep = "failed" THEN 0
  ELSE LET maxEstimatedTime == IF state.isPeakUsage THEN 480 ELSE 240
           timeProgress ==
             (state.elapsedTime * 100 * PctScale) \div maxEstimatedTime
       IN  CASE state.currentStep = "initializing" ->
                  Max(10 * PctScale, timeProgress \div 5)
             [] state.currentStep = "processing" ->
                  Max(20 * PctScale, (timeProgress * 4) \div 5)
             [] state.currentStep = "finalizing" ->
                  Max(85 * PctScale, timeProgress)
             [] OTHER -> timeProgress

getProgressPercentage(state) ==
  IF state.currentStep = "completed" THEN 100 * PctScale
  ELSE IF state.currentStep = "failed" THEN 0
  ELSE LET maxEstimatedTime == IF state.isPeakUsage THEN 480 ELSE 240
           ratio == (state.elapsedTime * 100 * PctScale) \div maxEstimatedTime
           timeProgress == IF ratio < 95 * PctScale THEN ratio
                           ELSE 95 * PctScale
       IN  CASE state.currentStep = "initializing" ->
                  Max(10 * PctScale, timeProgress \div 5)
             [] state.currentStep = "processing" ->
                  Max(20 * PctScale, (timeProgress * 4) \div 5)
             [] state.currentStep = "finalizing" ->
                  Max(85 * PctScale, timeProgress)
             [] OTHER -> timeProgress

\* ------------------------------------------------------- job record store
NewRecord(run) ==
  [user_id |-> User, run_id |-> run, status |-> "pending", tavus_job_id |-> 0,
   video_url |-> "none", error_message |-> "none"]

\* .insert([videoGenRecord]).select().single(): the new row's id is its index.
Insert(recs, run) == Append(recs, NewRecord(run))

\* .update({tavus_job_id, status: 'processing'}).eq('id', id)
MarkProcessing(recs, id, job) ==
  [recs EXCEPT ![id] = [@ EXCEPT !.tavus_job_id = job, !.status = "processing"]]

\* .update({status: 'completed', video_url}).eq('id', id)
MarkCompleted(recs, id, url) ==
  [recs EXCEPT ![id] = [@ EXCEPT !.status = "completed", !.video_url = url]]

\* The rows the failure handler's filter selects:
\* .eq('user_id', user.id).in('status', ['pending', 'processing'])
FailureFilter(r, user) ==
  r.user_id = user /\ r.status \in {"pending", "processing"}

\* .update({status: 'failed', error_message}) on the rows the filter selects
MarkFailed(recs, user, msg) ==
  [k \in DOMAIN recs |->
     IF FailureFilter(recs[k], user)
     THEN [recs[k] EXCEPT !.status = "failed", !.error_message = msg]
     ELSE recs[k]]

\* A record an earlier app session left behind (the app was closed mid-poll).
StaleRecord ==
  [user_id |-> User, run_id |-> 1, status |-> "processing", tavus_job_id |-> 9,
   video_url |-> "none", error_message |-> "none"]

InitialStores == {<<>>, <<StaleRecord>>}

\* ------------------------------------------------------------ call locals
NoResult ==
  [kind |-> "none", error |-> "none", videoUrl |-> "none",
   thumbnailUrl |-> "none", videoId |-> 0, total_time |-> 0]

NoPollResult ==
  [kind |-> "none", error |-> "none", videoUrl |-> "none",
   thumbnailUrl |-> "none", attempts_made |-> 0, total_time |-> 0,
   queue_time |-> 0, suggestion |-> FALSE]

\* VideoCustomization: format and the optional fields, "undefined" when the
\* caller left them out.
NoCustomization ==
  [format |-> "square", voiceType |-> "undefined",
   backgroundStyle |-> "undefined", musicStyle |-> "undefined",
   includeStats |-> "undefined", includeBranding |-> "undefined"]

Customizations ==
  {NoCustomization,
   [NoCustomization EXCEPT !.format = "vertical", !.includeStats = "true"],
   [format |-> "horizontal", voiceType |-> "calm",
    backgroundStyle |-> "confetti", musicStyle |-> "triumphant",
    includeStats |-> "false", includeBranding |-> "true"]}

NoCall ==
  [via |-> 0, activity |-> 0, signedIn |-> FALSE,
   customization |-> NoCustomization]
NoSvc == [rec |-> 0, job |-> 0, err |-> "none"]

\* let attempts = 0; let currentInterval = initialInterval; startTime = now;
\* let queuePhase = true.  status is statusResult.status, which lives from
\* the answer to the end of the iteration; wait is the argument of the last
\* sleep() called.  outages and down are the network's, not the code's: the
\* outages so far and whether the last status request failed; answer is the
\* provider's: the URLs of its latest answer with status completed.
NoAnswer == [hosted |-> "none", download |-> "none"]

NewPoll ==
  [attempts |-> 0, currentInterval |-> initialInterval * 1000, elapsed |-> 0,
   queuePhase |-> TRUE, status |-> "none", wait |-> 0, outages |-> 0,
   down |-> FALSE, res |-> NoPollResult, answer |-> NoAnswer]

Init ==
  /\ apiKey \in BOOLEAN
  /\ records \in InitialStores
  /\ hook = [i \in Instances |-> IdleState]
  /\ sinceStart = [i \in Instances |-> 0]
  /\ progressInterval = [i \in Instances |-> NoInterval]
  /\ bar = [i \in Instances |-> NotDrawn]
  /\ pc = [c \in Calls |-> "idle"]
  /\ call = [c \in Calls |-> NoCall]
  /\ svc = [c \in Calls |-> NoSvc]
  /\ poll = [c \in Calls |-> NewPoll]
  /\ http = [c \in Calls |-> [posts |-> 0, gets |-> 0, body |-> {}]]
  /\ result = [c \in Calls |-> NoResult]

\* ------------------------------------------------------------ the poller
Min(a, b) == IF a < b THEN a ELSE b

\* Math.round(ms / 1000)
RoundSeconds(ms) == (ms + 500) \div 1000

\* The backoff capped at the queue-phase cap instead of maxInterval.
NextInterval_QueueCap(cur) == Min((cur * 13) \div 10, queueIntervalCap * 1000)

\* Math.min(currentInterval * backoffMultiplier, maxInterval), multiplier 1.3
NextInterval(cur) == Min((cur * 13) \div 10, maxInterval * 1000)

\* The queue-phase interval capped below maxInterval.
PollInterval_LowQueueCap(queuePhase, cur) ==
  IF queuePhase THEN Min((cur * 3) \div 2, (maxInterval * 1000) \div 2)
  ELSE cur

\* queuePhase ? Math.min(currentInterval * 1.5, 30000) : currentInterval
PollInterval(queuePhase, cur) ==
  IF queuePhase THEN Min((cur * 3) \div 2, queueIntervalCap * 1000) ELSE cur

\* What GET /videos/{id} can answer; "neterror" is a failed fetch or a
\* non-2xx status, which getVideoStatus throws.
Responses ==
  {[status |-> s, hosted |-> "none", download |-> "none", thumb |-> "none"] :
     s \in {"neterror", "queued", "pending", "processing", "failed", "error"}}
  \cup
  [status : {"completed"}, hosted : {"none", "hosted"},
   download : {"none", "download"}, thumb : {"none", "thumb"}]

\* The URL choice with download_url before hosted_url.
UsableUrl_DownloadFirst(r) ==
  IF r.download # "none" THEN r.download
  ELSE IF r.hosted # "none" THEN r.hosted
  ELSE r.download

\* statusResult.hosted_url || statusResult.download_url || statusResult.video_url
\* (getVideoStatus sets video_url to data.download_url)
UsableUrl(r) ==
  IF r.hosted # "none" THEN r.hosted
  ELSE IF r.download # "none" THEN r.download
  ELSE r.download

\* A completed poll ends the run only with a URL (the `if (videoUrl)`).
EndsPolling(r) ==
  \/ r.status = "completed" /\ UsableUrl(r) # "none"
  \/ r.status \in {"failed", "error"}

TimeoutResult(p) ==
  [NoPollResult EXCEPT !.kind = "fail", !.error = "timeout",
     !.attempts_made = p.attempts, !.total_time = RoundSeconds(p.elapsed),
     !.suggestion = TRUE]

CeilingResult(p) ==
  [NoPollResult EXCEPT !.kind = "fail", !.error = "ceiling",
     !.attempts_made = p.attempts, !.suggestion = TRUE]

PollErrorResult(p) ==
  [NoPollResult EXCEPT !.kind = "fail", !.error = "poll_error",
     !.attempts_made = p.attempts]

ProviderFailedResult(p) ==
  [NoPollResult EXCEPT !.kind = "fail", !.error = "provider_failed",
     !.attempts_made = p.attempts, !.total_time = RoundSeconds(p.elapsed)]

\* queue_time: queuePhase ? elapsedTime : Math.round((now - queueStartTime)/1000)
SuccessResult(p, r) ==
  [NoPollResult EXCEPT !.kind = "ok", !.videoUrl = UsableUrl(r),
     !.thumbnailUrl = r.thumb, !.attempts_made = p.attempts,
     !.total_time = RoundSeconds(p.elapsed),
     !.queue_time = IF p.queuePhase THEN p.elapsed
                    ELSE RoundSeconds(p.elapsed)]

\* The service's catch block is entered with error err: it awaits getUser().
Catch(c, err) ==
  /\ svc' = [svc EXCEPT ![c].err = err]
  /\ pc' = [pc EXCEPT ![c] = "c_auth"]

\* pollVideoCompletionEnhanced returns res to generateActivityVideo, which
\* awaits the update to completed or throws into its catch block.  The
\* poller's locals end with it: only pollResult is kept (and what the
\* provider and the network did).
PollReturn(c, p, res) ==
  /\ poll' = [poll EXCEPT ![c] =
                [NewPoll EXCEPT !.res = res, !.answer = p.answer,
                                !.outages = p.outages]]
  /\ http' = http
  /\ IF res.kind = "ok" /\ res.videoUrl # "none"
     THEN pc' = [pc EXCEPT ![c] = "s_markdone"] /\ svc' = svc
     ELSE Catch(c, res.error)

\* The loop without its test attempts < maxAttempts.
LoopTop_NoCeiling(c, p) ==
  IF p.elapsed > totalTimeout
  THEN PollReturn(c, p, TimeoutResult(p))
  ELSE /\ poll' = [poll EXCEPT ![c] = [p EXCEPT !.attempts = @ + 1]]
       /\ http' = [http EXCEPT ![c].gets = @ + 1]
       /\ pc' = [pc EXCEPT ![c] = "p_req"]
       /\ svc' = svc

\* The top of the while loop, with the poller's locals p: the loop test, the
\* timeout test, attempts++ and the status request.
LoopTop(c, p) ==
  IF p.attempts < maxAttempts
  THEN IF p.elapsed > totalTimeout
       THEN PollReturn(c, p, TimeoutResult(p))
       ELSE /\ poll' = [poll EXCEPT ![c] = [p EXCEPT !.attempts = @ + 1]]
            /\ http' = [http EXCEPT ![c].gets = @ + 1]
            /\ pc' = [pc EXCEPT ![c] = "p_req"]
            /\ svc' = svc
  ELSE PollReturn(c, p, CeilingResult(p))

\* Every poll error returned to the caller.
LastAttempt_Always(p) == TRUE

\* if (attempts >= maxAttempts) of the poller's catch block
LastAttempt(p) == p.attempts >= maxAttempts

\* The status request of call c is answered.  lim bounds the polls the
\* provider may leave unfinished.
PollResponse(c, lim) ==
  /\ pc[c] = "p_req"
  /\ \E r \in Responses :
       LET p == poll[c] IN
       /\ ~EndsPolling(r) => p.attempts <= lim
       /\ r.status = "neterror" =>
            \/ p.down
            \/ p.outages < MaxOutages /\ p.attempts <= OutageStart
       /\ IF r.status = "neterror"
          THEN LET p1 == [p EXCEPT !.down = TRUE,
                            !.outages = IF p.down THEN @ ELSE @ + 1] IN
               IF LastAttempt(p1)
               THEN PollReturn(c, p1, PollErrorResult(p1))
               ELSE /\ poll' = [poll EXCEPT ![c] =
                                  [p1 EXCEPT !.wait = p1.currentInterval]]
                    /\ pc' = [pc EXCEPT ![c] = "p_sleep_err"]
                    /\ UNCHANGED <<svc, http>>
          ELSE LET p1 == [p EXCEPT !.down = FALSE, !.status = r.status,
                            !.queuePhase = IF r.status = "processing"
                                           THEN FALSE ELSE @,
                            !.answer = IF r.status = "completed"
                                       THEN [hosted |-> r.hosted,
                                             download |-> r.download]
                                       ELSE @] IN
               IF r.status = "completed" /\ UsableUrl(r) # "none"
               THEN PollReturn(c, p1, SuccessResult(p1, r))
               ELSE IF r.status \in {"failed", "error"}
               THEN PollReturn(c, p1, ProviderFailedResult(p1))
               ELSE IF p1.attempts < maxAttempts
               THEN /\ poll' = [poll EXCEPT ![c] =
                         [p1 EXCEPT !.wait =
                            PollInterval(p1.queuePhase, p1.currentInterval)]]
                    /\ pc' = [pc EXCEPT ![c] = "p_sleep"]
                    /\ UNCHANGED <<svc, http>>
               ELSE LoopTop(c, [p1 EXCEPT !.status = "none"])
  /\ UNCHANGED <<apiKey, bar, records, hook, sinceStart, progressInterval,
                 call, result>>

\* sleep(pollInterval) is over: the backoff, then the next iteration.
PollWake(c) ==
  /\ pc[c] = "p_sleep"
  /\ LoopTop(c, [poll[c] EXCEPT
                   !.elapsed = @ + (poll[c].wait \div 1000),
                   !.currentInterval = NextInterval(@),
                   !.status = "none"])
  /\ UNCHANGED <<apiKey, bar, records, hook, sinceStart, progressInterval,
                 call, result>>

\* sleep(currentInterval) of the catch block is over: the next iteration.
PollWakeAfterError(c) ==
  /\ pc[c] = "p_sleep_err"
  /\ LoopTop(c, [poll[c] EXCEPT !.elapsed = @ + (poll[c].wait \div 1000)])
  /\ UNCHANGED <<apiKey, bar, records, hook, sinceStart, progressInterval,
                 call, result>>

\* ----------------------------------------------------------- the service
\* JSON.stringify of an object, as the set of its <<key, value>> pairs: a
\* key whose value is undefined is left out.
JSONstringify(obj) == {kv \in obj : kv[2] # "undefined"}

\* The payload with the caller's customization spread into it.
payload_WithCustomization(c) ==
  {<<"replica_id", "replica">>, <<"script", "script">>,
   <<"video_name", "activity_name">>, <<"fast", "true">>}
  \cup {<<f, call[c].customization[f]>> : f \in DOMAIN call[c].customization}

\* const payload = {replica_id, script, video_name, fast: true} of
\* initiateVideoGeneration(activity, script) in call c: replica_id is the
\* environment's or 'default-replica', script and video_name are strings
\* built from the activity.
payload(c) ==
  {<<"replica_id", "replica">>, <<"script", "script">>,
   <<"video_name", "activity_name">>, <<"fast", "true">>}

FailResult(err) == [NoResult EXCEPT !.kind = "fail", !.error = err]

\* generateActivityVideo of the service returns res; a hook caller then runs
\* its own continuation: the two setState calls of success, or the throw into
\* its catch block and the setState of failure.
Deliver(c, res) ==
  /\ result' = [result EXCEPT ![c] = res]
  /\ pc' = [pc EXCEPT ![c] = "done"]
  /\ IF call[c].via = 0
     THEN UNCHANGED <<hook, sinceStart, progressInterval>>
     ELSE SetState(call[c].via,
                   IF res.kind = "ok" /\ res.videoUrl # "none"
                   THEN CompletedValue(hook[call[c].via], res)
                   ELSE FailedValue(hook[call[c].via], res.error))

\* The service's entry without its API key test.
ApiKeySet_Unchecked == TRUE

\* if (!this.apiKey) at the service's entry, negated.
ApiKeySet == apiKey

\* getConfigStatus().configured, which the hook tests before it starts.
getConfigStatus == apiKey

\* supabase.auth.getUser() of the service answers.
ServiceAuth(c) ==
  /\ pc[c] = "s_auth"
  /\ \E ok \in BOOLEAN :
       IF ok
       THEN pc' = [pc EXCEPT ![c] = "s_insert"] /\ svc' = svc
       ELSE Catch(c, "auth")
  /\ UNCHANGED <<apiKey, bar, records, hook, sinceStart, progressInterval,
                 call, poll, http, result>>

\* The insert answers; on success initiateVideoGeneration posts the job.
ServiceInsert(c) ==
  /\ pc[c] = "s_insert"
  /\ \E ok \in BOOLEAN :
       IF ok
       THEN /\ records' = Insert(records, call[c].activity)
            /\ svc' = [svc EXCEPT ![c].rec = Len(records) + 1]
            /\ http' = [http EXCEPT ![c].posts = @ + 1,
                                    ![c].body = JSONstringify(payload(c))]
            /\ pc' = [pc EXCEPT ![c] = "s_submit"]
       ELSE /\ Catch(c, "insert")
            /\ UNCHANGED <<records, http>>
  /\ UNCHANGED <<apiKey, bar, hook, sinceStart, progressInterval,
                 call, poll, result>>

\* POST /videos answers: 2xx with a video_id, a non-2xx status, or no answer.
ServiceSubmit(c) ==
  /\ pc[c] = "s_submit"
  /\ \E r \in {"ok", "submit_http", "submit_network"} :
       IF r = "ok"
       THEN /\ svc' = [svc EXCEPT ![c].job = c]
            /\ pc' = [pc EXCEPT ![c] = "s_markproc"]
       ELSE Catch(c, r)
  /\ UNCHANGED <<apiKey, bar, records, hook, sinceStart, progressInterval,
                 call, poll, http, result>>

\* The update to processing answers (its error is not looked at); polling
\* starts.
ServiceMarkProcessing(c) ==
  /\ pc[c] = "s_markproc"
  /\ \E ok \in BOOLEAN :
       records' = IF ok THEN MarkProcessing(records, svc[c].rec, svc[c].job)
                  ELSE records
  /\ LoopTop(c, NewPoll)
  /\ UNCHANGED <<apiKey, bar, hook, sinceStart, progressInterval, call, result>>

\* The update to completed answers (its error is not looked at); the service
\* returns success.
ServiceMarkCompleted(c) ==
  /\ pc[c] = "s_markdone"
  /\ \E ok \in BOOLEAN :
       records' = IF ok
                  THEN MarkCompleted(records, svc[c].rec, poll[c].res.videoUrl)
                  ELSE records
  /\ Deliver(c, [NoResult EXCEPT !.kind = "ok",
                   !.videoUrl = poll[c].res.videoUrl,
                   !.thumbnailUrl = poll[c].res.thumbnailUrl,
                   !.videoId = svc[c].rec,
                   !.total_time = poll[c].res.total_time])
  /\ UNCHANGED <<apiKey, bar, call, svc, poll, http>>

\* getUser() of the catch block answers: with a user the failure update is
\* awaited, without one the service returns the failure.
CatchAuth(c) ==
  /\ pc[c] = "c_auth"
  /\ \E ok \in BOOLEAN :
       IF ok
       THEN /\ pc' = [pc EXCEPT ![c] = "c_markfail"]
            /\ UNCHANGED <<hook, sinceStart, progressInterval, result>>
       ELSE Deliver(c, FailResult(svc[c].err))
  /\ UNCHANGED <<apiKey, bar, records, call, svc, poll, http>>

\* The failure update answers (its error is not looked at); the service
\* returns the failure.
CatchMarkFailed(c) ==
  /\ pc[c] = "c_markfail"
  /\ \E ok \in BOOLEAN :
       records' = IF ok THEN MarkFailed(records, User, svc[c].err)
                  ELSE records
  /\ Deliver(c, FailResult(svc[c].err))
  /\ UNCHANGED <<apiKey, bar, call, svc, poll, http>>

\* Calls are interchangeable: call c is the c-th to start.
InOrder(c) == c > 1 => pc[c - 1] # "idle"

\* enhancedTavusService.generateActivityVideo called directly.
StartService(c, a, k) ==
  /\ pc[c] = "idle"
  /\ InOrder(c)
  /\ call' = [call EXCEPT ![c] =
                [via |-> 0, activity |-> a, signedIn |-> FALSE,
                 customization |-> k]]
  /\ IF ApiKeySet
     THEN /\ pc' = [pc EXCEPT ![c] = "s_auth"]
          /\ UNCHANGED result
     ELSE /\ pc' = [pc EXCEPT ![c] = "done"]
          /\ result' = [result EXCEPT ![c] = FailResult("config")]
  /\ UNCHANGED <<apiKey, bar, records, hook, sinceStart, progressInterval,
                 svc, poll, http>>

\* -------------------------------------------------------------- the hook
\* generateActivityVideo of hook instance i, up to its first await.  signedIn
\* is whether useAuth() gave the hook a user.  Hook instances are
\* interchangeable: call c uses one of the first c.
StartHook(c, i, a, signedIn, k) ==
  /\ pc[c] = "idle"
  /\ InOrder(c)
  /\ i <= c
  /\ call' = [call EXCEPT ![c] =
                [via |-> i, activity |-> a, signedIn |-> signedIn,
                 customization |-> k]]
  /\ IF ~signedIn
     THEN /\ pc' = [pc EXCEPT ![c] = "done"]
          /\ result' = [result EXCEPT ![c] = FailResult("auth")]
          /\ UNCHANGED <<hook, sinceStart, progressInterval>>
     ELSE IF ~getConfigStatus
     THEN /\ pc' = [pc EXCEPT ![c] = "done"]
          /\ result' = [result EXCEPT ![c] = FailResult("config")]
          /\ SetState(i, ConfigFailedValue)
     ELSE /\ pc' = [pc EXCEPT ![c] = "h_auth"]
          /\ result' = result
          /\ SetState(i, StartedValue(hook[i]))
  /\ UNCHANGED <<apiKey, bar, records, svc, poll, http>>

\* getUser() of the hook answers: the hook fails, or moves to processing and
\* calls the service, which runs up to its first await.
HookAuth(c) ==
  /\ pc[c] = "h_auth"
  /\ \E ok \in BOOLEAN :
       LET i == call[c].via IN
       IF ~ok
       THEN /\ SetState(i, FailedValue(hook[i], "auth"))
            /\ result' = [result EXCEPT ![c] = FailResult("auth")]
            /\ pc' = [pc EXCEPT ![c] = "done"]
       ELSE IF ~ApiKeySet
       THEN /\ SetState(i, FailedValue(hook[i], "config"))
            /\ result' = [result EXCEPT ![c] = FailResult("config")]
            /\ pc' = [pc EXCEPT ![c] = "done"]
       ELSE /\ SetState(i, [hook[i] EXCEPT !.currentStep = "processing"])
            /\ result' = result
            /\ pc' = [pc EXCEPT ![c] = "s_auth"]
  /\ UNCHANGED <<apiKey, bar, records, call, svc, poll, http>>

\* resetState of hook instance i: the setState, then clearInterval on
\* progressIntervalRef.current.
Reset(i) ==
  /\ hook' = [hook EXCEPT ![i] = ResetValue(hook[i])]
  /\ sinceStart' = [sinceStart EXCEPT ![i] = 0]
  /\ progressInterval' = [progressInterval EXCEPT ![i] = NoInterval]
  /\ UNCHANGED <<apiKey, bar, records, pc, call, svc, poll, http, result>>

\* updateProgress, called by the interval of hook instance i, d seconds after
\* the tick before it (or after the effect started the interval).  It reads
\* isGenerating and estimatedTimeRemaining of the render that made it, and
\* updates the state of now.  A changed estimatedTimeRemaining makes the
\* effect run again, which restarts the interval and sets startTimeRef to
\* now.  The render after a tick that found generating ended has run the
\* effect that clears the interval.
TickDelays == {1, LateTick}

Tick(i, d) ==
  /\ hook[i].isGenerating \/ progressInterval[i] # NoInterval
  /\ LET elapsed == sinceStart[i] + d
         closedOver == IF hook[i].isGenerating
                       THEN hook[i].estimatedTimeRemaining
                       ELSE progressInterval[i]
         remaining == Max(0, closedOver - elapsed)
         next == [hook[i] EXCEPT !.elapsedTime = elapsed,
                                 !.estimatedTimeRemaining = remaining,
                                 !.isPeakUsage = (elapsed > peakSeconds)]
     IN  /\ elapsed <= MaxElapsed
         /\ hook' = [hook EXCEPT ![i] = next]
         /\ IF hook[i].isGenerating
            THEN /\ sinceStart' =
                      [sinceStart EXCEPT
                         ![i] = useEffect(hook[i], next, elapsed)]
                 /\ progressInterval' = progressInterval
            ELSE /\ sinceStart' = [sinceStart EXCEPT ![i] = 0]
                 /\ progressInterval' =
                      [progressInterval EXCEPT ![i] = NoInterval]
  /\ UNCHANGED <<apiKey, bar, records, pc, call, svc, poll, http, result>>

\* The effect of the render that ended generating: clearInterval.
EffectCleanup(i) ==
  /\ progressInterval[i] # NoInterval
  /\ progressInterval' = [progressInterval EXCEPT ![i] = NoInterval]
  /\ sinceStart' = [sinceStart EXCEPT ![i] = 0]
  /\ UNCHANGED <<apiKey, bar, records, hook, pc, call, svc, poll, http,
                 result>>

\* A component that uses hook instance i renders: the progress bar's width
\* is getProgressPercentage() percent.
Render(i) ==
  /\ bar' = [bar EXCEPT ![i] = getProgressPercentage(hook[i])]
  /\ UNCHANGED <<apiKey, records, hook, sinceStart, progressInterval,
                 pc, call, svc, poll, http,
                 result>>

\* ------------------------------------------------------- specifications
\* Overlapping generate() calls on the hooks and the service; the provider
\* finishes every job within ShortPolls + 1 polls.
Next ==
  \/ \E c \in Calls, i \in Instances, a \in 1..NumActivities, u \in BOOLEAN :
       StartHook(c, i, a, u, NoCustomization)
  \/ \E c \in Calls, a \in 1..NumActivities :
       StartService(c, a, NoCustomization)
  \/ \E c \in Calls : HookAuth(c)
  \/ \E c \in Calls : ServiceAuth(c)
  \/ \E c \in Calls : ServiceInsert(c)
  \/ \E c \in Calls : ServiceSubmit(c)
  \/ \E c \in Calls : ServiceMarkProcessing(c)
  \/ \E c \in Calls : PollResponse(c, ShortPolls)
  \/ \E c \in Calls : PollWake(c)
  \/ \E c \in Calls : PollWakeAfterError(c)
  \/ \E c \in Calls : ServiceMarkCompleted(c)
  \/ \E c \in Calls : CatchAuth(c)
  \/ \E c \in Calls : CatchMarkFailed(c)
  \/ \E i \in Instances : Reset(i)
  \/ \E i \in Instances : EffectCleanup(i)

Spec == Init /\ [][Next]_vars

\* One generate() call, direct or through hook 1, against a provider that may
\* leave every poll unfinished.
InitPoll ==
  /\ Init
  /\ apiKey
  /\ records = <<>>

NextPoll ==
  \/ StartService(1, 1, NoCustomization)
  \/ \E u \in BOOLEAN : StartHook(1, 1, 1, u, NoCustomization)
  \/ HookAuth(1)
  \/ ServiceAuth(1)
  \/ ServiceInsert(1)
  \/ ServiceSubmit(1)
  \/ ServiceMarkProcessing(1)
  \/ PollResponse(1, maxAttempts)
  \/ PollWake(1)
  \/ PollWakeAfterError(1)
  \/ ServiceMarkCompleted(1)
  \/ CatchAuth(1)
  \/ CatchMarkFailed(1)
  \/ EffectCleanup(1)

SpecPoll == InitPoll /\ [][NextPoll]_vars

\* SpecPoll where every await of the call returns: each network call is
\* answered and each sleep ends.  Whether and when generate() is called is
\* left to the caller.
CallStep(c) ==
  \/ HookAuth(c)
  \/ ServiceAuth(c)
  \/ ServiceInsert(c)
  \/ ServiceSubmit(c)
  \/ ServiceMarkProcessing(c)
  \/ PollResponse(c, maxAttempts)
  \/ PollWake(c)
  \/ PollWakeAfterError(c)
  \/ ServiceMarkCompleted(c)
  \/ CatchAuth(c)
  \/ CatchMarkFailed(c)

SpecPollFair == InitPoll /\ [][NextPoll]_vars /\ WF_vars(CallStep(1))

\* A session of hook instance 1 with its ticker: one generate() call of a
\* signed-in user with any customization, resets and ticks; the provider finishes the job within
\* ShortPolls + 1 polls.
InitTick ==
  /\ Init
  /\ apiKey
  /\ records = <<>>

NextTick ==
  \/ \E k \in Customizations : StartHook(1, 1, 1, TRUE, k)
  \/ HookAuth(1)
  \/ ServiceAuth(1)
  \/ ServiceInsert(1)
  \/ ServiceSubmit(1)
  \/ ServiceMarkProcessing(1)
  \/ PollResponse(1, ShortPolls)
  \/ PollWake(1)
  \/ PollWakeAfterError(1)
  \/ ServiceMarkCompleted(1)
  \/ CatchAuth(1)
  \/ CatchMarkFailed(1)
  \/ Reset(1)
  \/ \E d \in TickDelays : Tick(1, d)
  \/ EffectCleanup(1)

SpecTick == InitTick /\ [][NextTick]_vars

\* getProgressPercentage as a function of the state it reads: a component
\* renders the bar from any value of currentStep, elapsedTime and
\* isPeakUsage.
Steps == {"initializing", "processing", "finalizing", "completed", "failed"}

ProgressInputs ==
  {[IdleState EXCEPT !.currentStep = st, !.elapsedTime = e,
                     !.isPeakUsage = pk] :
     st \in Steps, e \in 0..MaxElapsed, pk \in BOOLEAN}

InitProgress ==
  /\ apiKey = TRUE
  /\ records = <<>>
  /\ hook \in [Instances -> ProgressInputs]
  /\ sinceStart = [i \in Instances |-> 0]
  /\ progressInterval = [i \in Instances |-> NoInterval]
  /\ bar = [i \in Instances |-> NotDrawn]
  /\ pc = [c \in Calls |-> "idle"]
  /\ call = [c \in Calls |-> NoCall]
  /\ svc = [c \in Calls |-> NoSvc]
  /\ poll = [c \in Calls |-> NewPoll]
  /\ http = [c \in Calls |-> [posts |-> 0, gets |-> 0, body |-> {}]]
  /\ result = [c \in Calls |-> NoResult]

NextProgress == \E i \in Instances : Render(i)

SpecProgress == InitProgress /\ [][NextProgress]_vars

\* ---------------------------------------------------------------- claims
Terminal == {"completed", "failed"}
Done(c) == pc[c] = "done"
Starts(c) == pc[c] = "idle" /\ pc'[c] # "idle"

\* C1: a generate() call made (by a signed-in caller) on a hook whose
\* session is in flight is rejected at once with a ConcurrentGenerationError,
\* and changes neither the session, nor the store, nor the requests issued.
C1_SecondGenerateRejected ==
  [][\A c \in Calls, i \in Instances :
       (/\ Starts(c)
        /\ call'[c].via = i
        /\ call'[c].signedIn
        /\ hook[i].isGenerating) =>
         /\ pc'[c] = "done"
         /\ result'[c].kind = "fail"
         /\ result'[c].error = "concurrent"
         /\ hook' = hook
         /\ records' = records
         /\ http' = http]_vars

\* C2: a record whose status is completed or failed keeps that status in
\* every later state.
C2_TerminalAbsorbing ==
  [][\A k \in DOMAIN records :
       records[k].status \in Terminal =>
         records'[k].status = records[k].status]_vars

\* C3: no store write takes a record from pending to completed (the order
\* pending, processing, completed|failed leaves no such step), also when a
\* store write returned an error.
C3_NeverCompletedFromPending ==
  [][\A k \in DOMAIN records :
       records[k].status = "pending" =>
         records'[k].status # "completed"]_vars

\* C4: when generate() has failed after its JobRecord was created, that
\* record is failed and carries the error generate() failed with.
C4_FailureMarksRecordFailed ==
  \A c \in Calls :
    (Done(c) /\ result[c].kind = "fail" /\ svc[c].rec # 0) =>
      /\ records[svc[c].rec].status = "failed"
      /\ records[svc[c].rec].error_message = result[c].error

\* C5 (for one call): a generate() call that passed the preconditions, and
\* whose insert the store accepted, has created exactly one JobRecord, and
\* when it has returned that record is completed or failed.
PassedPreconditions(c) ==
  Done(c) /\ result[c].error \notin {"auth", "config", "insert"}

CreatedRecords ==
  {k \in DOMAIN records :
     records[k].tavus_job_id # StaleRecord.tavus_job_id}

C5_OneTerminalRecordPerCall ==
  PassedPreconditions(1) =>
    /\ Cardinality(CreatedRecords) = 1
    /\ svc[1].rec \in CreatedRecords
    /\ \A k \in CreatedRecords : records[k].status \in Terminal

\* C6: with the API key missing, every generate() call, on the hook or on
\* the service, ends in its first step with the configuration error (a hook
\* without a signed-in user throws its own error first); no request is
\* issued to the provider and the store does not change.
C6_MissingKeyFailsFast ==
  [][~apiKey =>
       /\ records' = records
       /\ http' = http
       /\ \A c \in Calls : http[c].posts = 0 /\ http[c].gets = 0
       /\ \A c \in Calls :
            Starts(c) =>
              /\ pc'[c] = "done"
              /\ result'[c].kind = "fail"
              /\ result'[c].error =
                   IF call'[c].via # 0 /\ ~call'[c].signedIn
                   THEN "auth" ELSE "config"]_vars

C6_Witness ==
  /\ ~apiKey
  /\ records = <<StaleRecord>>
  /\ \E c1, c2 \in Calls :
       /\ Done(c1) /\ call[c1].via = 0 /\ result[c1].error = "config"
       /\ Done(c2) /\ call[c2].via # 0 /\ result[c2].error = "config"
       /\ hook[call[c2].via].currentStep = "failed"

\* C7: the poller does not go on polling after a poll that answered
\* completed: with no usable URL that poll is the last one.
C7_CompletedWithoutUrlStopsPolling ==
  \A c \in Calls :
    poll[c].status = "completed" => pc[c] # "p_sleep"

\* C8: when the poller has returned the timeout result, that result carries
\* the elapsed seconds (above the timeout), the attempts made and the retry
\* suggestion, every status request issued was issued before the timeout was
\* seen, generate() has failed, and the JobRecord is failed.
C8_TimeoutFailsAndMarksRecord ==
  \A c \in Calls :
    (Done(c) /\ poll[c].res.error = "timeout") =>
      /\ poll[c].res.total_time * 1000 + 500 > totalTimeout
      /\ poll[c].res.attempts_made = http[c].gets
      /\ poll[c].res.suggestion
      /\ result[c].kind = "fail"
      /\ records[svc[c].rec].status = "failed"

\* C9: every wait the poller starts is at most maxInterval and at least the
\* wait it slept before.
C9_WaitsNonDecreasingAndCapped ==
  [][\A c \in Calls :
       (pc[c] = "p_req" /\ pc'[c] \in {"p_sleep", "p_sleep_err"}) =>
         /\ poll'[c].wait <= maxInterval * 1000
         /\ poll'[c].wait >= poll[c].wait]_vars

\* C9, amended: during a poll run currentInterval never decreases and never
\* exceeds maxInterval; every wait the poller starts is at least
\* currentInterval and at most the queue-phase cap of 30000 ms.
Polling(c) == pc[c] \in {"p_req", "p_sleep", "p_sleep_err"}

C9_IntervalBounds ==
  [][\A c \in Calls :
       /\ poll'[c].currentInterval <= maxInterval * 1000
       /\ (Polling(c) /\ Polling(c)') =>
            poll'[c].currentInterval >= poll[c].currentInterval
       /\ (pc[c] = "p_req" /\ pc'[c] \in {"p_sleep", "p_sleep_err"}) =>
            /\ poll'[c].wait >= poll'[c].currentInterval
            /\ poll'[c].wait <= queueIntervalCap * 1000]_vars

C9_Witness ==
  \E c \in Calls :
    /\ pc[c] = "p_sleep"
    /\ ~poll[c].queuePhase
    /\ poll[c].currentInterval = maxInterval * 1000
    /\ poll[c].wait = maxInterval * 1000

\* C10: for the currentInterval of every backoff step, the queue-phase wait
\* is at least the processing-phase wait.
C10_QueueWaitAtLeastProcessingWait ==
  \A c \in Calls :
    PollInterval(TRUE, poll[c].currentInterval)
      >= PollInterval(FALSE, poll[c].currentInterval)

C10_Witness ==
  \E c \in Calls :
    /\ pc[c] = "p_sleep"
    /\ poll[c].queuePhase
    /\ poll[c].currentInterval = maxInterval * 1000
    /\ poll[c].wait = queueIntervalCap * 1000

\* C11: during a session that stays in one non-terminal step, a state with a
\* larger elapsedTime (and isPeakUsage = elapsedTime > 120) never has a
\* smaller progress percentage than the state before it.
C11_PercentageNeverDrops ==
  [][\A i \in Instances :
       (/\ hook[i].isGenerating /\ hook'[i].isGenerating
        /\ hook[i].currentStep \notin Terminal
        /\ hook'[i].currentStep = hook[i].currentStep
        /\ hook'[i].elapsedTime > hook[i].elapsedTime
        /\ hook'[i].isPeakUsage = (hook'[i].elapsedTime > peakSeconds)) =>
         getProgressPercentage(hook'[i]) >= getProgressPercentage(hook[i])]_vars

\* C12: the percentage a render shows is at most 95 in the steps
\* initializing, processing and finalizing, for every elapsedTime and either
\* value of isPeakUsage; it is 100 in step completed and 0 in step failed.
C12_PercentageCappedUntilTerminal ==
  \A i \in Instances :
    bar[i] # NotDrawn =>
      /\ hook[i].currentStep = "completed" => bar[i] = 100 * PctScale
      /\ hook[i].currentStep = "failed" => bar[i] = 0
      /\ hook[i].currentStep \notin Terminal => bar[i] <= 95 * PctScale

C12_Witness ==
  \E i \in Instances :
    /\ bar[i] = 95 * PctScale
    /\ hook[i].currentStep = "finalizing"
    /\ ~hook[i].isPeakUsage
    /\ hook[i].elapsedTime = MaxElapsed

\* C13: a session whose isPeakUsage is true keeps it true in its next state,
\* unless the step is resetState() or the start of a new generate() on that
\* hook instance.
IsReset(i) == pc' = pc /\ hook'[i] = ResetValue(hook[i])
IsNewGenerate(i) == \E c \in Calls : Starts(c) /\ call'[c].via = i

C13_PeakFlagSticky ==
  [][\A i \in Instances :
       (hook[i].isPeakUsage /\ ~IsReset(i) /\ ~IsNewGenerate(i)) =>
         hook'[i].isPeakUsage]_vars

\* C14: the session state of a hook instance (isGenerating and currentStep)
\* moves only forward through idle, initializing, processing and
\* completed|failed, and does not change between completed and failed; the
\* exceptions are resetState() and a generate() started from a terminal
\* state.
Phase(state) ==
  IF state.currentStep \in Terminal THEN 3
  ELSE IF state.currentStep = "processing" THEN 2
  ELSE IF state.isGenerating THEN 1
  ELSE 0

C14_SessionMovesForward ==
  [][\A i \in Instances :
       \/ IsReset(i)
       \/ IsNewGenerate(i) /\ hook[i].currentStep \in Terminal
       \/ /\ Phase(hook'[i]) >= Phase(hook[i])
          /\ hook[i].currentStep \in Terminal =>
               hook'[i].currentStep = hook[i].currentStep]_vars

\* C15: the body of every submission request has exactly the keys
\* replica_id, script, video_name and fast, none of them null, whatever
\* customization the call was given.
PayloadKeys(body) == {kv[1] : kv \in body}

C15_PayloadHasOnlyProviderFields ==
  \A c \in Calls :
    http[c].posts > 0 =>
      /\ PayloadKeys(http[c].body) =
           {"replica_id", "script", "video_name", "fast"}
      /\ Cardinality(http[c].body) = 4
      /\ \A kv \in http[c].body : kv[2] \notin {"null", "undefined"}

C15_Witness ==
  \E c \in Calls :
    /\ http[c].posts = 1
    /\ call[c].customization.voiceType = "calm"
    /\ call[c].customization.includeBranding = "true"
    /\ call[c].customization.format = "horizontal"

\* C16: a generate() call that has resolved returns the hosted_url of the
\* completed answer, or its download_url when it has no hosted_url; a poll
\* that is answered completed with a usable URL makes the call resolve, and
\* when that was the first poll exactly one status request was issued.
C16_ResolvesWithHostedElseDownload ==
  \A c \in Calls :
    LET a == poll[c].answer IN
    /\ (Done(c) /\ result[c].kind = "ok") =>
         /\ result[c].videoUrl # "none"
         /\ result[c].videoUrl =
              IF a.hosted # "none" THEN a.hosted ELSE a.download
    /\ (Done(c) /\ (a.hosted # "none" \/ a.download # "none")) =>
         result[c].kind = "ok"
    /\ (Done(c) /\ result[c].kind = "ok"
          /\ poll[c].res.attempts_made = 1) => http[c].gets = 1

C16_Witness ==
  \E c \in Calls :
    /\ Done(c)
    /\ result[c].kind = "ok"
    /\ result[c].videoUrl = "download"
    /\ poll[c].answer.hosted = "none"
    /\ http[c].gets > 1

\* C17: at the step in which generate() returns success with videoUrl U,
\* the record of that call has status completed and video_url U.
Returns(c) == pc[c] # "done" /\ pc'[c] = "done"

C17_RecordCompletedAtSuccess ==
  [][\A c \in Calls :
       (Returns(c) /\ result'[c].kind = "ok") =>
         /\ records'[svc[c].rec].status = "completed"
         /\ records'[svc[c].rec].video_url = result'[c].videoUrl]_vars

\* C18: a status poll that fails before attempt maxAttempts fails nothing:
\* the poller sleeps and then polls again (or sees the timeout at the loop
\* head); an answer completed with a usable URL after such an error still
\* gives success; the result "polling failed" is returned only with
\* attempts_made = maxAttempts.
C18_PollErrorSwallowed ==
  /\ [](\A c \in Calls :
         /\ poll[c].res.error = "poll_error" =>
              poll[c].res.attempts_made = maxAttempts
         /\ result[c].error = "poll_error" =>
              poll[c].res.attempts_made = maxAttempts
         /\ pc[c] = "p_sleep_err" =>
              /\ poll[c].attempts < maxAttempts
              /\ result[c].kind = "none")
  /\ [][\A c \in Calls :
         /\ (pc[c] = "p_sleep_err" /\ pc'[c] # "p_sleep_err") =>
              \/ pc'[c] = "p_req" /\ http'[c].gets = http[c].gets + 1
              \/ poll'[c].res.error = "timeout"
         /\ (/\ pc[c] = "p_req" /\ pc'[c] # "p_req"
             /\ poll[c].outages > 0
             /\ UsableUrl(poll'[c].answer) # "none") =>
              /\ pc'[c] = "s_markdone"
              /\ poll'[c].res.kind = "ok"]_vars

C18_Witness ==
  \E c \in Calls :
    /\ Done(c)
    /\ result[c].kind = "ok"
    /\ poll[c].outages > 0
    /\ poll[c].res.attempts_made > 2

\* C19: a call issues at most maxAttempts status requests, failed ones
\* included; the answer to request maxAttempts ends the polling, and when
\* that answer is not terminal the poller returns the failure "exceeded
\* maximum polling attempts", which the hook reports like the timeout, with
\* attempts_made = maxAttempts and the retry suggestion.
C19_AttemptCeiling ==
  /\ [](\A c \in Calls :
         /\ http[c].gets <= maxAttempts
         /\ Polling(c) => http[c].gets = poll[c].attempts
         /\ poll[c].res.error = "ceiling" =>
              /\ poll[c].res.kind = "fail"
              /\ poll[c].res.attempts_made = maxAttempts
              /\ poll[c].res.suggestion
              /\ http[c].gets = maxAttempts
              /\ getEnhancedErrorMessage(poll[c].res.error) =
                   getEnhancedErrorMessage("timeout"))
  /\ [][\A c \in Calls :
         (pc[c] = "p_req" /\ poll[c].attempts = maxAttempts
            /\ pc'[c] # "p_req") =>
           /\ ~Polling(c)'
           /\ poll'[c].res.error \in
                {"none", "ceiling", "poll_error", "provider_failed"}
           /\ http'[c].gets = maxAttempts]_vars

C19_Witness ==
  \E c \in Calls :
    /\ Done(c)
    /\ poll[c].res.error = "ceiling"
    /\ result[c].error = "ceiling"
    /\ http[c].gets = maxAttempts
    /\ poll[c].outages > 0

\* C20: a call whose submission request was answered with a non-2xx status
\* has issued one POST and no status request, has failed with the error of
\* that answer, and its record is failed.
C20_SubmissionRejected ==
  \A c \in Calls :
    (Done(c) /\ svc[c].err = "submit_http") =>
      /\ http[c].posts = 1
      /\ http[c].gets = 0
      /\ result[c].kind = "fail"
      /\ result[c].error = "submit_http"
      /\ records[svc[c].rec].status = "failed"

\* C21: a generate() call that the caller cancelled (resetState() while it is
\* in flight, the hook's only cancel surface) issues no status request after
\* that, and its result does not make the session completed with a video.
InFlight(c) == pc[c] \notin {"idle", "done"}

Cancelled(c) ==
  /\ call[c].via # 0
  /\ InFlight(c)
  /\ ~hook[call[c].via].isGenerating
  /\ \A c2 \in Calls \ {c} : call[c2].via # call[c].via

C21_CancelStopsPollingAndDiscards ==
  [][\A c \in Calls :
       Cancelled(c) =>
         /\ http'[c].gets = http[c].gets
         /\ hook'[call[c].via].currentStep = "completed" =>
              hook'[call[c].via].videoUrl = "none"]_vars

\* C22: resetState() on a completed or failed session gives the idle session
\* with videoUrl, thumbnailUrl and error cleared and the ticker stopped;
\* resetState() on a session that is generating leaves it generating.
C22_ResetOnlyFromTerminal ==
  [][\A i \in Instances :
       IsReset(i) =>
         /\ hook[i].currentStep \in Terminal =>
              /\ ~hook'[i].isGenerating
              /\ hook'[i].currentStep = "initializing"
              /\ hook'[i].videoUrl = "none"
              /\ hook'[i].thumbnailUrl = "none"
              /\ hook'[i].error = "none"
              /\ sinceStart'[i] = 0
         /\ hook[i].isGenerating => hook'[i].isGenerating]_vars

\* C23: the failure handler of one generate() call leaves the status of the
\* JobRecord of every other call that is still in flight as it was.
C23_FailureHandlerTouchesOwnRecordOnly ==
  [][\A c \in Calls :
       (pc[c] = "c_markfail" /\ pc'[c] = "done") =>
         \A c2 \in Calls \ {c} :
           (InFlight(c2) /\ svc[c2].rec # 0) =>
             records'[svc[c2].rec].status = records[svc[c2].rec].status]_vars

\* C24: the session becomes completed only from finalizing: every step that
\* takes currentStep to completed starts with currentStep finalizing.
C24_CompletedOnlyFromFinalizing ==
  [][\A i \in Instances :
       (hook[i].currentStep # "completed" /\ hook'[i].currentStep = "completed")
         => hook[i].currentStep = "finalizing"]_vars

\* C25: once the session is completed or failed, no tick of the interval
\* changes elapsedTime, estimatedTimeRemaining or isPeakUsage: a step that
\* no call takes and that leaves currentStep completed or failed leaves them
\* as they are.
C25_NoTickAfterTerminal ==
  [][\A i \in Instances :
       (/\ hook[i].currentStep \in Terminal
        /\ ~hook[i].isGenerating
        /\ pc' = pc
        /\ hook'[i].currentStep = hook[i].currentStep)
         => /\ hook'[i].elapsedTime = hook[i].elapsedTime
            /\ hook'[i].estimatedTimeRemaining = hook[i].estimatedTimeRemaining
            /\ hook'[i].isPeakUsage = hook[i].isPeakUsage]_vars

\* C26: the queue_time of a poller's success result is a duration in the
\* unit of total_time (whole seconds) that lies within the run: it is never
\* larger than total_time.
C26_QueueTimeWithinTotalTime ==
  \A c \in Calls :
    poll[c].res.kind = "ok" =>
      poll[c].res.queue_time <= poll[c].res.total_time

\* C27: in every state of a hook, videoUrl and thumbnailUrl are set only
\* when currentStep is completed, and error is set only when currentStep is
\* failed.
C27_ResultFieldsMatchStep ==
  \A i \in Instances :
    /\ hook[i].videoUrl # "none" => hook[i].currentStep = "completed"
    /\ hook[i].thumbnailUrl # "none" => hook[i].currentStep = "completed"
    /\ hook[i].error # "none" => hook[i].currentStep = "failed"

\* C28: a generate() call that fails because the caller is not authenticated
\* has created no JobRecord and issued no request to the provider, and the
\* step that ends it leaves the store as it was.
C28_AuthFailureTouchesNothing ==
  [][\A c \in Calls :
       (Returns(c) /\ result'[c].error = "auth") =>
         /\ svc'[c].rec = 0
         /\ http'[c].posts = 0
         /\ http'[c].gets = 0
         /\ records' = records]_vars

\* C29: while a generation is in flight the elapsedTime a tick exposes is
\* the whole seconds from one start time: a tick, which comes a second or
\* more after the tick before it, exposes a larger elapsedTime.
C29_ElapsedCountsFromOneStart ==
  [][\A i \in Instances :
       (/\ hook[i].isGenerating
        /\ hook'[i].isGenerating
        /\ pc' = pc
        /\ hook'[i] # hook[i])
         => hook'[i].elapsedTime > hook[i].elapsedTime]_vars

\* C30: every generate() call that was made returns, whatever the provider
\* answers, and no status request is issued for a job after a status poll
\* has answered completed, failed or error for it.
AnsweredTerminal(c) == poll[c].status \in {"completed", "failed", "error"}

C30_Terminates == pc[1] # "idle" ~> Done(1)

C30_TerminatesAndStopsPolling ==
  /\ pc[1] # "idle" ~> Done(1)
  /\ [][\A c \in Calls :
          AnsweredTerminal(c) => http'[c].gets = http[c].gets]_vars

====

